---------------------------- MODULE Spec2Model ----------------------------
(***************************************************************************)
(* Model of src/src/main.rs: ingestion of a career dataset (read_dataset), *)
(* shuffle + take sampling and the summary / regression reporting (main,   *)
(* print_sample_verification, perform_salary_correlation_analysis,         *)
(* calculate_linear_regression).                                           *)
(*                                                                         *)
(* f64 values are modelled as exact extended reals: a rational n/d, a      *)
(* signed square root of a rational (the only irrational the program can   *)
(* produce: the denominator of the correlation), NaN, +inf and -inf, with  *)
(* the IEEE-754 rules for the special values.  Rounding and the sign of    *)
(* zero are not modelled.                                                  *)
(***************************************************************************)
EXTENDS Integers, Sequences, FiniteSets, TLC

(***************************************************************************)
(* Bounds of the model.                                                    *)
(***************************************************************************)
\* rows in the data file after the header
MaxFileRows == 4
\* length of the vectors handed to calculate_linear_regression on its own
MaxLen == 3
\* the correlation inputs of the label check are k/CorrDen, |k| <= CorrDen
CorrDen == 100

(***************************************************************************)
(* Program constants.  max_records (20_000) and the sample size (2_000)    *)
(* are scaled down so that the cap and both sampling cases are reached.    *)
(***************************************************************************)
max_records == 3
SampleK == 2
MinFields == 23
PrintCount == 10

(***************************************************************************)
(* f64                                                                     *)
(***************************************************************************)
Abs(n) == IF n < 0 THEN -n ELSE n

Sgn(n) == IF n < 0 THEN -1 ELSE IF n > 0 THEN 1 ELSE 0

RECURSIVE Gcd(_, _)
Gcd(a, b) == IF b = 0 THEN a ELSE Gcd(b, a % b)

\* the rational n/d in lowest terms, d # 0
Rat(n, d) ==
    LET g == Gcd(Abs(n), Abs(d))
        s == IF d < 0 THEN -1 ELSE 1
    IN  [k |-> "fin", s |-> 0, n |-> (s * n) \div g, d |-> (s * d) \div g]

Num(n) == Rat(n, 1)

NaN == [k |-> "nan", s |-> 0, n |-> 0, d |-> 1]

Inf(sign) == [k |-> "inf", s |-> sign, n |-> 0, d |-> 1]

\* sign * sqrt(n/d), n/d > 0 in lowest terms and not the square of a rational
Root(sign, n, d) == [k |-> "root", s |-> sign, n |-> n, d |-> d]

IsFinite(a) == a.k \in {"fin", "root"}

IsZero(a) == a.k = "fin" /\ a.n = 0

SignOf(a) == IF a.k = "fin" THEN Sgn(a.n) ELSE a.s

FNeg(a) ==
    CASE a.k = "fin" -> Rat(-a.n, a.d)
      [] a.k = "nan" -> NaN
      [] OTHER -> [a EXCEPT !.s = -a.s]

FAdd(a, b) ==
    CASE a.k = "nan" \/ b.k = "nan" -> NaN
      [] a.k = "inf" /\ b.k = "inf" -> IF a.s = b.s THEN a ELSE NaN
      [] a.k = "inf" -> a
      [] b.k = "inf" -> b
      [] a.k = "fin" /\ b.k = "fin" -> Rat(a.n * b.d + b.n * a.d, a.d * b.d)

FSub(a, b) == FAdd(a, FNeg(b))

RECURSIVE ISqrtFrom(_, _)
ISqrtFrom(n, r) == IF (r + 1) * (r + 1) > n THEN r ELSE ISqrtFrom(n, r + 1)

ISqrt(n) == ISqrtFrom(n, 0)

IsSquare(n) == ISqrt(n) * ISqrt(n) = n

FSqrt(a) ==
    CASE a.k = "nan" -> NaN
      [] a.k = "inf" -> IF a.s > 0 THEN a ELSE NaN
      [] a.k = "fin" ->
            IF a.n < 0 THEN NaN
            ELSE IF IsSquare(a.n) /\ IsSquare(a.d) THEN Rat(ISqrt(a.n), ISqrt(a.d))
            ELSE Root(1, a.n, a.d)

FMul(a, b) ==
    CASE a.k = "nan" \/ b.k = "nan" -> NaN
      [] a.k = "inf" \/ b.k = "inf" ->
            IF IsZero(a) \/ IsZero(b) THEN NaN ELSE Inf(SignOf(a) * SignOf(b))
      [] a.k = "fin" /\ b.k = "fin" -> Rat(a.n * b.n, a.d * b.d)
      [] a.k = "root" /\ b.k = "root" ->
            \* sqrt(p) * sqrt(q) = sqrt(p*q)
            LET r == FSqrt(Rat(a.n * b.n, a.d * b.d))
            IN  IF a.s * b.s < 0 THEN FNeg(r) ELSE r

FDiv(a, b) ==
    CASE a.k = "nan" \/ b.k = "nan" -> NaN
      [] a.k = "inf" /\ b.k = "inf" -> NaN
      [] a.k = "inf" -> Inf(a.s * (IF SignOf(b) < 0 THEN -1 ELSE 1))
      [] b.k = "inf" -> Num(0)
      [] IsZero(b) -> IF IsZero(a) THEN NaN ELSE Inf(SignOf(a))
      [] a.k = "fin" /\ b.k = "fin" -> Rat(a.n * b.d, a.d * b.n)
      [] a.k = "fin" /\ b.k = "root" ->
            \* a / (s*sqrt(q)) = sgn(a)*s * sqrt(a^2 / q)
            IF a.n = 0 THEN Num(0)
            ELSE LET q == Rat(a.n * a.n * b.d, a.d * a.d * b.n)
                     r == FSqrt(q)
                 IN  IF SignOf(a) * b.s < 0 THEN FNeg(r) ELSE r

\* f64::powi(2)
Powi2(a) == FMul(a, a)

\* f64::abs
FAbs(a) ==
    CASE a.k = "fin" -> Rat(Abs(a.n), a.d)
      [] a.k = "nan" -> NaN
      [] OTHER -> [a EXCEPT !.s = 1]

\* a < b on f64: false as soon as either side is NaN
FLt(a, b) ==
    CASE a.k = "nan" \/ b.k = "nan" -> FALSE
      [] a.k = "inf" -> a.s < 0 /\ ~(b.k = "inf" /\ b.s < 0)
      [] b.k = "inf" -> b.s > 0
      [] a.k = "fin" /\ b.k = "fin" -> a.n * b.d < b.n * a.d
      [] OTHER ->
            \* at least one square root: compare signs, then the squares
            LET sa == SignOf(a)
                sb == SignOf(b)
                qa == Powi2(a)
                qb == Powi2(b)
            IN  IF sa # sb THEN sa < sb
                ELSE IF sa > 0 THEN qa.n * qb.d < qb.n * qa.d
                ELSE IF sa < 0 THEN qb.n * qa.d < qa.n * qb.d
                ELSE FALSE

\* f64::min and f64::max: a NaN operand is ignored
FMin(a, b) == IF a.k = "nan" THEN b ELSE IF b.k = "nan" THEN a ELSE IF FLt(b, a) THEN b ELSE a

FMax(a, b) == IF a.k = "nan" THEN b ELSE IF b.k = "nan" THEN a ELSE IF FLt(a, b) THEN b ELSE a

RECURSIVE FSum(_)
FSum(v) == IF v = <<>> THEN Num(0) ELSE FAdd(FSum(SubSeq(v, 1, Len(v) - 1)), v[Len(v)])

(***************************************************************************)
(* Text.  A field of a csv record is a sequence of one-character strings.  *)
(* Numeric field texts are drawn from an alphabet without exponent marks,  *)
(* so ParseF64 covers sign, digits, one decimal point and the spellings of *)
(* the special values.                                                     *)
(***************************************************************************)
Whitespace == {" ", "\t"}

RECURSIVE TrimStart(_)
TrimStart(t) == IF t # <<>> /\ Head(t) \in Whitespace THEN TrimStart(Tail(t)) ELSE t

RECURSIVE TrimEnd(_)
TrimEnd(t) ==
    IF t # <<>> /\ t[Len(t)] \in Whitespace THEN TrimEnd(SubSeq(t, 1, Len(t) - 1)) ELSE t

\* str::trim
Trim(t) == TrimEnd(TrimStart(t))

DigitChars == <<"0", "1", "2", "3", "4", "5", "6", "7", "8", "9">>

IsDigit(c) == \E j \in 1..Len(DigitChars) : DigitChars[j] = c

DigitVal(c) == (CHOOSE j \in 1..Len(DigitChars) : DigitChars[j] = c) - 1

Lower(c) ==
    CASE c = "I" -> "i" [] c = "N" -> "n" [] c = "F" -> "f"
      [] c = "A" -> "a" [] c = "T" -> "t" [] c = "Y" -> "y"
      [] OTHER -> c

LowerText(t) == [j \in 1..Len(t) |-> Lower(t[j])]

\* the integer written by the digits of t, its decimal point skipped
RECURSIVE DigitsValue(_)
DigitsValue(t) ==
    IF t = <<>> THEN 0
    ELSE LET front == SubSeq(t, 1, Len(t) - 1)
             c == t[Len(t)]
         IN  IF c = "." THEN DigitsValue(front) ELSE 10 * DigitsValue(front) + DigitVal(c)

RECURSIVE Pow10(_)
Pow10(e) == IF e = 0 THEN 1 ELSE 10 * Pow10(e - 1)

ParseOk(v) == [ok |-> TRUE, v |-> v]

ParseErr == [ok |-> FALSE, v |-> NaN]

\* str::parse::<f64>
ParseF64(t) ==
    IF t = <<>> THEN ParseErr
    ELSE LET signed == Head(t) \in {"+", "-"}
             sign == IF Head(t) = "-" THEN -1 ELSE 1
             body == IF signed THEN Tail(t) ELSE t
             low == LowerText(body)
             dots == {j \in 1..Len(body) : body[j] = "."}
             digits == {j \in 1..Len(body) : IsDigit(body[j])}
         IN  IF low \in {<<"i", "n", "f">>, <<"i", "n", "f", "i", "n", "i", "t", "y">>}
                 THEN ParseOk(Inf(sign))
             ELSE IF low = <<"n", "a", "n">> THEN ParseOk(NaN)
             ELSE IF /\ dots \cup digits = 1..Len(body)
                     /\ Cardinality(dots) <= 1
                     /\ digits # {}
                 THEN LET frac == IF dots = {} THEN 0
                                  ELSE Len(body) - (CHOOSE j \in dots : TRUE)
                      IN  ParseOk(Rat(sign * DigitsValue(body), Pow10(frac)))
             ELSE ParseErr

\* the match with the codes of Medium and High exchanged
FamilyInfluenceExchanged(t) ==
    CASE t = <<"N", "o", "n", "e">> -> ParseOk(Num(0))
      [] t = <<"L", "o", "w">> -> ParseOk(Num(1))
      [] t = <<"M", "e", "d", "i", "u", "m">> -> ParseOk(Num(3))
      [] t = <<"H", "i", "g", "h">> -> ParseOk(Num(2))
      [] OTHER -> ParseErr

\* the match on the family-influence text, lines 42-48
FamilyInfluence(t) ==
    CASE t = <<"N", "o", "n", "e">> -> ParseOk(Num(0))
      [] t = <<"L", "o", "w">> -> ParseOk(Num(1))
      [] t = <<"M", "e", "d", "i", "u", "m">> -> ParseOk(Num(2))
      [] t = <<"H", "i", "g", "h">> -> ParseOk(Num(3))
      [] OTHER -> ParseErr

(***************************************************************************)
(* The data file: a header of header_len columns and rows drawn from Rows. *)
(* A row carries its number of fields and the text of the seven columns    *)
(* read_dataset reads (2, 4, 7, 19, 14, 10, 22).                           *)
(***************************************************************************)
Row(len, age, fi, sal) ==
    [len |-> len, c2 |-> age, c4 |-> <<"5">>, c7 |-> <<"4", ".", "5">>,
     c19 |-> <<"1", "0", "0">>, c14 |-> fi, c10 |-> sal, c22 |-> <<"0", ".", "3">>]

RowBodies ==
    { <<<<"1">>, <<"N", "o", "n", "e">>, <<"2">>>>,
      <<<<" ", "2">>, <<"L", "o", "w">>, <<"4">>>>,
      <<<<"3">>, <<" ", "M", "e", "d", "i", "u", "m", " ">>, <<"5">>>>,
      <<<<"2">>, <<"H", "i", "g", "h">>, <<"2", " ">>>>,
      <<<<"1", ".", "5">>, <<"M", "e", "d", "i", "u", "m">>, <<"3">>>>,
      <<<<"x">>, <<"L", "o", "w">>, <<"2">>>>,
      <<<<>>, <<"H", "i", "g", "h">>, <<"2">>>>,
      <<<<"1">>, <<"l", "o", "w">>, <<"2">>>>,
      <<<<"1">>, <<>>, <<"2">>>>,
      <<<<"i", "n", "f">>, <<"H", "i", "g", "h">>, <<"4">>>>,
      <<<<"1">>, <<"L", "o", "w">>, <<"N", "a", "N">>>> }

HeaderLens == {MinFields - 1, MinFields}

Rows == {Row(len, b[1], b[2], b[3]) : len \in HeaderLens, b \in RowBodies}

NoRecord == Row(0, <<>>, <<>>, <<>>)

\* csv::Reader::records with the default flexible(false): a record whose number
\* of fields differs from the header's is an Err(UnequalLengths)
ReaderErr(header, row) == row.len # header

Individual(i, age, yoe, js, pns, fi, sal, lik) ==
    [id |-> i, age |-> age, years_of_experience |-> yoe, job_satisfaction |-> js,
     professional_network_size |-> pns, family_influence |-> fi, salary |-> sal,
     likelihood_to_change_occupation |-> lik]

\* lines 42-83: the seven parses of one record of at least 23 fields
ParseRecord(i, row) ==
    LET family_influence == FamilyInfluence(Trim(row.c14))
        age == ParseF64(Trim(row.c2))
        yoe == ParseF64(Trim(row.c4))
        js == ParseF64(Trim(row.c7))
        pns == ParseF64(Trim(row.c19))
        sal == ParseF64(Trim(row.c10))
        lik == ParseF64(Trim(row.c22))
    IN  IF age.ok /\ yoe.ok /\ js.ok /\ pns.ok /\ family_influence.ok /\ sal.ok /\ lik.ok
        THEN [ok |-> TRUE,
              ind |-> Individual(i, age.v, yoe.v, js.v, pns.v, family_influence.v,
                                 sal.v, lik.v)]
        ELSE [ok |-> FALSE,
              ind |-> Individual(i, NaN, NaN, NaN, NaN, NaN, NaN, NaN)]

(***************************************************************************)
(* calculate_linear_regression                                             *)
(***************************************************************************)
Panic(msg) ==
    [panic |-> TRUE, message |-> msg, slope |-> NaN, intercept |-> NaN,
     correlation |-> NaN, r_squared |-> NaN]

\* a one-sided length check: a shorter x is let through
EqualLengthOneSided(x, y) == Len(x) <= Len(y)

\* line 92: the condition of assert_eq!
EqualLength(x, y) == Len(x) = Len(y)

\* the slope without the (n - 1) factor of line 108
SlopeUnscaled(cov_xy, var_x, n) == FDiv(cov_xy, var_x)

\* line 108
SlopeOf(cov_xy, var_x, n) == FDiv(cov_xy, FMul(var_x, FSub(n, Num(1))))

\* a correlation that reports 0 when a sum of squares is zero
CorrelationGuarded(r_numerator, r_denomx, r_denomy) ==
    IF IsZero(r_denomx) \/ IsZero(r_denomy) THEN Num(0)
    ELSE FDiv(r_numerator, FSqrt(FMul(r_denomx, r_denomy)))

\* line 123
CorrelationOf(r_numerator, r_denomx, r_denomy) ==
    FDiv(r_numerator, FSqrt(FMul(r_denomx, r_denomy)))

calculate_linear_regression(x, y) ==
    IF ~EqualLength(x, y) THEN Panic("Input vectors must be of equal length")
    ELSE
    LET n == Num(Len(x))
        mean_x == FDiv(FSum(x), n)
        mean_y == FDiv(FSum(y), n)
        dx == [j \in 1..Len(x) |-> FSub(x[j], mean_x)]
        dy == [j \in 1..Len(x) |-> FSub(y[j], mean_y)]
        var_sum == FSum([j \in 1..Len(x) |-> Powi2(dx[j])])
        cov_xy == FSum([j \in 1..Len(x) |-> FMul(dx[j], dy[j])])
        var_x == FDiv(var_sum, FSub(n, Num(1)))
        slope == SlopeOf(cov_xy, var_x, n)
        intercept == FSub(mean_y, FMul(slope, mean_x))
        r_numerator == FSum([j \in 1..Len(x) |-> FMul(dx[j], dy[j])])
        r_denomx == FSum([j \in 1..Len(x) |-> Powi2(dx[j])])
        r_denomy == FSum([j \in 1..Len(x) |-> Powi2(dy[j])])
        correlation == CorrelationOf(r_numerator, r_denomx, r_denomy)
        r_squared == Powi2(correlation)
    IN  [panic |-> FALSE, message |-> "", slope |-> slope, intercept |-> intercept,
         correlation |-> correlation, r_squared |-> r_squared]

\* the label with the boundaries in the lower bucket
StrengthLabelLowerTies(correlation) ==
    IF ~FLt(Rat(3, 10), FAbs(correlation)) THEN "Weak correlation"
    ELSE IF ~FLt(Rat(7, 10), FAbs(correlation)) THEN "Moderate correlation"
    ELSE "Strong correlation"

\* lines 167-173: the label printed for a correlation
StrengthLabel(correlation) ==
    IF FLt(FAbs(correlation), Rat(3, 10)) THEN "Weak correlation"
    ELSE IF FLt(FAbs(correlation), Rat(7, 10)) THEN "Moderate correlation"
    ELSE "Strong correlation"

(***************************************************************************)
(* perform_salary_correlation_analysis, print_sample_verification          *)
(***************************************************************************)
Column(sample, f) == [j \in 1..Len(sample) |-> sample[j][f]]

\* the vec with the family-influence analysis left out
AnalysesWithoutFamily(sample) ==
    << <<"Salary vs Age", Column(sample, "age"), Column(sample, "salary")>>,
       <<"Salary vs Years of Experience", Column(sample, "years_of_experience"),
         Column(sample, "salary")>>,
       <<"Salary vs Job Satisfaction", Column(sample, "job_satisfaction"),
         Column(sample, "salary")>>,
       <<"Salary vs Professional Network Size",
         Column(sample, "professional_network_size"), Column(sample, "salary")>>,
       <<"Salary vs Likelihood to Change Occupation",
         Column(sample, "likelihood_to_change_occupation"), Column(sample, "salary")>> >>

\* lines 130-154: the vec of (title, x, y)
Analyses(sample) ==
    << <<"Salary vs Age", Column(sample, "age"), Column(sample, "salary")>>,
       <<"Salary vs Years of Experience", Column(sample, "years_of_experience"),
         Column(sample, "salary")>>,
       <<"Salary vs Job Satisfaction", Column(sample, "job_satisfaction"),
         Column(sample, "salary")>>,
       <<"Salary vs Professional Network Size",
         Column(sample, "professional_network_size"), Column(sample, "salary")>>,
       <<"Salary vs Family Influence", Column(sample, "family_influence"),
         Column(sample, "salary")>>,
       <<"Salary vs Likelihood to Change Occupation",
         Column(sample, "likelihood_to_change_occupation"), Column(sample, "salary")>> >>

RECURSIVE FoldMin(_, _)
FoldMin(acc, v) == IF v = <<>> THEN acc ELSE FoldMin(FMin(acc, Head(v)), Tail(v))

RECURSIVE FoldMax(_, _)
FoldMax(acc, v) == IF v = <<>> THEN acc ELSE FoldMax(FMax(acc, Head(v)), Tail(v))

print_stats(data) ==
    [mean |-> FDiv(FSum(data), Num(Len(data))),
     min |-> FoldMin(Inf(1), data),
     max |-> FoldMax(Inf(-1), data)]

CountEq(sample, v) == Cardinality({j \in 1..Len(sample) : sample[j].family_influence = v})

Percent(sample, v) == FMul(FDiv(Num(CountEq(sample, Num(v))), Num(Len(sample))), Num(100))

\* a prefix one element too long
TakeOneMore(s, k) == SubSeq(s, 1, IF k + 1 < Len(s) THEN k + 1 ELSE Len(s))

\* Iterator::take(k) collected
Take(s, k) == SubSeq(s, 1, IF k < Len(s) THEN k ELSE Len(s))

Reverse(s) == [j \in 1..Len(s) |-> s[Len(s) + 1 - j]]

print_sample_verification(sample) ==
    [total |-> Len(sample),
     age |-> print_stats(Column(sample, "age")),
     experience |-> print_stats(Column(sample, "years_of_experience")),
     salary |-> print_stats(Column(sample, "salary")),
     family |-> <<Percent(sample, 0), Percent(sample, 1), Percent(sample, 2),
                  Percent(sample, 3)>>,
     first |-> Column(Take(sample, PrintCount), "id"),
     last |-> Column(Take(Reverse(sample), PrintCount), "id")]

NoStats == print_sample_verification(<<>>)

\* slice::shuffle: the orders a shuffle of s can leave
Shuffles(s) == {[j \in 1..Len(s) |-> s[p[j]]] : p \in Permutations(1..Len(s))}

(***************************************************************************)
(* State                                                                   *)
(***************************************************************************)
VARIABLES
    pc,            \* position of the run
    header_len,    \* number of columns of the file's header
    file_len,      \* number of rows of the file
    i,             \* read_dataset: index of the next row
    record,        \* read_dataset: the row read last
    individuals,   \* the working set
    parse_errors,  \* read_dataset: the failure counter
    final_sample,  \* main: the sample
    stats,         \* what print_sample_verification printed
    analyses,      \* perform_salary_correlation_analysis: the vec of analyses
    results,       \* what each analysis printed, in print order
    fx, fy, fres,  \* calculate_linear_regression called on its own
    corr_in, label \* the strength label computed on its own

vars == <<pc, header_len, file_len, i, record, individuals, parse_errors, final_sample,
          stats, analyses, results, fx, fy, fres, corr_in, label>>

pipeline == <<header_len, file_len, i, record, individuals, parse_errors, final_sample,
              stats, analyses, results>>

harness == <<fx, fy, fres, corr_in, label>>

NoResult == Panic("")

InitPipeline ==
    /\ i = 0
    /\ record = NoRecord
    /\ individuals = <<>>
    /\ parse_errors = 0
    /\ final_sample = <<>>
    /\ stats = NoStats
    /\ analyses = <<>>
    /\ results = <<>>

InitHarness ==
    /\ fx = <<>>
    /\ fy = <<>>
    /\ fres = NoResult
    /\ corr_in = NaN
    /\ label = ""

Init ==
    /\ pc = "open"
    /\ header_len \in HeaderLens
    /\ file_len \in 0..MaxFileRows
    /\ InitPipeline
    /\ InitHarness

(***************************************************************************)
(* read_dataset                                                            *)
(***************************************************************************)
\* lines 21-23: from_path(file_path)?
OpenFile ==
    /\ pc = "open"
    /\ \E opened \in BOOLEAN : pc' = IF opened THEN "read_dataset" ELSE "aborted"
    /\ UNCHANGED <<pipeline, harness>>

\* lines 28-83: one iteration of the loop over rdr.records()
ReadRecord ==
    /\ pc = "read_dataset"
    /\ i < file_len
    /\ i < max_records
    /\ \E row \in Rows :
          /\ record' = row
          /\ IF ReaderErr(header_len, row)
             THEN \* line 33: result? returns the reader's error
                  /\ pc' = "aborted"
                  /\ UNCHANGED <<i, individuals, parse_errors>>
             ELSE IF row.len < MinFields
             THEN \* lines 36-40: short record
                  /\ parse_errors' = parse_errors + 1
                  /\ i' = i + 1
                  /\ UNCHANGED <<pc, individuals>>
             ELSE LET parsed == ParseRecord(i, row)
                  IN  /\ IF parsed.ok
                         THEN /\ individuals' = Append(individuals, parsed.ind)
                              /\ UNCHANGED parse_errors
                         ELSE /\ parse_errors' = parse_errors + 1
                              /\ UNCHANGED individuals
                      /\ i' = i + 1
                      /\ UNCHANGED pc
    /\ UNCHANGED <<header_len, file_len, final_sample, stats, analyses, results, harness>>

\* lines 29-31 and 86-87: the row cap ends the loop
ReadBreak ==
    /\ pc = "read_dataset"
    /\ i < file_len
    /\ i >= max_records
    /\ pc' = "main_loaded"
    /\ record' = NoRecord
    /\ UNCHANGED <<header_len, file_len, i, individuals, parse_errors, final_sample,
                   stats, analyses, results, harness>>

\* lines 28 and 86-87: the reader is exhausted
ReadEnd ==
    /\ pc = "read_dataset"
    /\ i = file_len
    /\ pc' = "main_loaded"
    /\ record' = NoRecord
    /\ UNCHANGED <<header_len, file_len, i, individuals, parse_errors, final_sample,
                   stats, analyses, results, harness>>

(***************************************************************************)
(* main                                                                    *)
(***************************************************************************)
\* main without the early return on an empty working set
MainEmptyFallsThrough ==
    /\ pc = "main_loaded"
    /\ individuals = <<>>
    /\ pc' = "shuffled"
    /\ UNCHANGED <<pipeline, harness>>

\* lines 235-238
MainEmpty ==
    /\ pc = "main_loaded"
    /\ individuals = <<>>
    /\ pc' = "exit_empty"
    /\ UNCHANGED <<pipeline, harness>>

\* lines 241-242
Shuffle ==
    /\ pc = "main_loaded"
    /\ individuals # <<>>
    /\ individuals' \in Shuffles(individuals)
    /\ pc' = "shuffled"
    /\ UNCHANGED <<header_len, file_len, i, record, parse_errors, final_sample, stats,
                   analyses, results, harness>>

\* line 245
TakeSample ==
    /\ pc = "shuffled"
    /\ final_sample' = Take(individuals, SampleK)
    /\ pc' = "sampled"
    /\ UNCHANGED <<header_len, file_len, i, record, individuals, parse_errors, stats,
                   analyses, results, harness>>

\* line 248
Verify ==
    /\ pc = "sampled"
    /\ stats' = print_sample_verification(final_sample)
    /\ pc' = "verified"
    /\ UNCHANGED <<header_len, file_len, i, record, individuals, parse_errors,
                   final_sample, analyses, results, harness>>

\* lines 130-156
BuildAnalyses ==
    /\ pc = "verified"
    /\ analyses' = Analyses(final_sample)
    /\ pc' = "analysing"
    /\ UNCHANGED <<header_len, file_len, i, record, individuals, parse_errors,
                   final_sample, stats, results, harness>>

\* lines 158-174: one iteration of the loop over analyses
Analyse ==
    /\ pc = "analysing"
    /\ Len(results) < Len(analyses)
    /\ LET a == analyses[Len(results) + 1]
           r == calculate_linear_regression(a[2], a[3])
       IN  IF r.panic
           THEN /\ pc' = "panicked"
                /\ UNCHANGED results
           ELSE /\ results' = Append(results,
                       [title |-> a[1], x |-> a[2], y |-> a[3], slope |-> r.slope,
                        intercept |-> r.intercept, correlation |-> r.correlation,
                        r_squared |-> r.r_squared,
                        label |-> StrengthLabel(r.correlation)])
                /\ UNCHANGED pc
    /\ UNCHANGED <<header_len, file_len, i, record, individuals, parse_errors,
                   final_sample, stats, analyses, harness>>

\* lines 176 and 253
Finish ==
    /\ pc = "analysing"
    /\ Len(results) = Len(analyses)
    /\ pc' = "done"
    /\ UNCHANGED <<pipeline, harness>>

Next ==
    \/ OpenFile
    \/ ReadRecord
    \/ ReadBreak
    \/ ReadEnd
    \/ MainEmpty
    \/ Shuffle
    \/ TakeSample
    \/ Verify
    \/ BuildAnalyses
    \/ Analyse
    \/ Finish

Spec == Init /\ [][Next]_vars

(***************************************************************************)
(* calculate_linear_regression on its own, on vectors of small integers    *)
(***************************************************************************)
XVals == {0, 1, 2}

YVals == {0, 1, 2, 4}

Vectors(S) == UNION {[1..m -> {Num(v) : v \in S}] : m \in 0..MaxLen}

InitRegress ==
    /\ pc = "call_regression"
    /\ fx \in Vectors(XVals)
    /\ fy \in Vectors(YVals)
    /\ fres = NoResult
    /\ corr_in = NaN
    /\ label = ""
    /\ header_len = MinFields
    /\ file_len = 0
    /\ InitPipeline

CallRegression ==
    /\ pc = "call_regression"
    /\ fres' = calculate_linear_regression(fx, fy)
    /\ pc' = IF fres'.panic THEN "panicked" ELSE "returned"
    /\ UNCHANGED <<pipeline, fx, fy, corr_in, label>>

NextRegress == CallRegression

SpecRegress == InitRegress /\ [][NextRegress]_vars

(***************************************************************************)
(* the strength label on its own                                           *)
(***************************************************************************)
CorrInputs == {Rat(n, CorrDen) : n \in (-CorrDen)..CorrDen} \cup {NaN, Inf(1), Inf(-1)}

InitStrength ==
    /\ pc = "classify"
    /\ corr_in \in CorrInputs
    /\ label = ""
    /\ fx = <<>>
    /\ fy = <<>>
    /\ fres = NoResult
    /\ header_len = MinFields
    /\ file_len = 0
    /\ InitPipeline

Classify ==
    /\ pc = "classify"
    /\ label' = StrengthLabel(corr_in)
    /\ pc' = "classified"
    /\ UNCHANGED <<pipeline, fx, fy, fres, corr_in>>

NextStrength == Classify

SpecStrength == InitStrength /\ [][NextStrength]_vars
(***************************************************************************)
(* Properties                                                              *)
(***************************************************************************)
Last(s) == s[Len(s)]

Count(s, e) == Cardinality({j \in 1..Len(s) : s[j] = e})

SamePopulation(s, t) ==
    /\ Len(s) = Len(t)
    /\ \A j \in 1..Len(s) : Count(s, s[j]) = Count(t, s[j])

NoDuplicate(s) == \A j, m \in 1..Len(s) : j # m => s[j] # s[m]

\* a step of ReadRecord: the loop consumed one row
ReadStep == pc = "read_dataset" /\ pc' # "main_loaded" /\ (i' # i \/ pc' # pc)

FieldNames ==
    {"age", "years_of_experience", "job_satisfaction", "professional_network_size",
     "family_influence", "salary", "likelihood_to_change_occupation"}

C2_AllFieldsFinite ==
    [][ /\ \A j \in 1..Len(individuals') : \A f \in FieldNames :
              individuals'[j][f].k = "fin"
        /\ (ReadStep /\ pc' = pc /\ record'.len >= MinFields
                /\ ~ParseRecord(i, record').ok)
            => individuals' = individuals ]_vars

\* a row the claim calls malformed: too few columns, or a field that does not parse
Malformed(row) == row.len < MinFields \/ ~ParseRecord(0, row).ok

\* C3: a malformed row is dropped, counts as exactly one failure and the loop goes
\* on to the next row; at the end of ingestion records + failures = rows considered.
C3_MalformedRowCountedAndSkipped ==
    [][ /\ (ReadStep /\ Malformed(record'))
            => /\ individuals' = individuals
               /\ parse_errors' = parse_errors + 1
               /\ i' = i + 1
               /\ pc' = "read_dataset"
        /\ pc' = "main_loaded" => Len(individuals') + parse_errors' = i' ]_vars

\* C4: with no valid record the run stops at once: the shuffle, the sample, the
\* summary and the regressions are reached only with a non-empty working set and
\* a non-empty sample.
C4_EmptySetStopsTheRun ==
    /\ pc \in {"shuffled", "sampled", "verified", "analysing", "done"}
        => individuals # <<>>
    /\ pc \in {"sampled", "verified", "analysing", "done"} => final_sample # <<>>
    /\ (stats.total # 0 \/ analyses # <<>> \/ results # <<>>) => final_sample # <<>>
    /\ pc = "exit_empty"
        => /\ individuals = <<>>
           /\ final_sample = <<>>
           /\ stats = NoStats
           /\ analyses = <<>>
           /\ results = <<>>
           /\ ~ENABLED Next

C4_Witness == pc = "exit_empty" /\ parse_errors = max_records

\* C5: with vectors of different lengths the call panics with the message of the
\* assertion and returns nothing; with vectors of equal length it never panics.
C5_LengthMismatchPanics ==
    pc # "call_regression"
        => IF Len(fx) # Len(fy)
           THEN /\ pc = "panicked"
                /\ fres.panic
                /\ fres.message = "Input vectors must be of equal length"
           ELSE pc = "returned" /\ ~fres.panic

C5_Witness == pc = "panicked" /\ Len(fx) < Len(fy) /\ Len(fx) > 0

C6_Linear(x, y, a, b) ==
    /\ Len(x) = Len(y)
    /\ \A j \in 1..Len(x) : y[j] = FAdd(FMul(Num(a), x[j]), Num(b))

C6_TwoDistinct(x) == \E j, m \in 1..Len(x) : x[j] # x[m]

C6_Mean(v) == FDiv(FSum(v), Num(Len(v)))

\* sum of (x - mean x)(y - mean y) over n - 1
C6_SampleCovariance(x, y) ==
    FDiv(FSum([j \in 1..Len(x) |->
                  FMul(FSub(x[j], C6_Mean(x)), FSub(y[j], C6_Mean(y)))]),
         Num(Len(x) - 1))

\* C6: on y = a*x + b with a > 0 and two distinct x the call returns slope a,
\* intercept b, correlation 1 and r_squared 1; on any x with two distinct values
\* the slope is the sample covariance over the sample variance of x (both over
\* n - 1) and the intercept is mean_y - slope * mean_x.
C6_PerfectLineRecovered ==
    (pc = "returned" /\ C6_TwoDistinct(fx))
        => /\ \A a \in 1..4 : \A b \in 0..4 :
                 C6_Linear(fx, fy, a, b)
                     => /\ fres.slope = Num(a)
                        /\ fres.intercept = Num(b)
                        /\ fres.correlation = Num(1)
                        /\ fres.r_squared = Num(1)
           /\ fres.slope = FDiv(C6_SampleCovariance(fx, fy), C6_SampleCovariance(fx, fx))
           /\ fres.intercept = FSub(C6_Mean(fy), FMul(fres.slope, C6_Mean(fx)))

C6_Witness ==
    /\ pc = "returned"
    /\ fx = <<Num(0), Num(1), Num(2)>>
    /\ fy = <<Num(0), Num(2), Num(4)>>
    /\ fres.slope = Num(2)
    /\ fres.correlation = Num(1)

Labels == {"Weak correlation", "Moderate correlation", "Strong correlation"}

\* C7: the label depends on |correlation| alone: Weak below 0.3, Moderate from 0.3
\* (included) to 0.7 (excluded), Strong from 0.7 (included); one label each time.
C7_LabelBuckets ==
    pc = "classified"
        => /\ label \in Labels
           /\ corr_in.k = "fin"
                => LET m == Abs(corr_in.n)
                       d == corr_in.d
                   IN  /\ 10 * m < 3 * d => label = "Weak correlation"
                       /\ (10 * m >= 3 * d /\ 10 * m < 7 * d)
                            => label = "Moderate correlation"
                       /\ 10 * m >= 7 * d => label = "Strong correlation"
           /\ corr_in.k = "inf" => label = "Strong correlation"

C7_Witness ==
    /\ pc = "classified"
    /\ corr_in = Rat(-3, 10)
    /\ label = "Moderate correlation"

C8_Codes ==
    [t \in {<<"N", "o", "n", "e">>, <<"L", "o", "w">>, <<"M", "e", "d", "i", "u", "m">>,
            <<"H", "i", "g", "h">>} |->
        CASE t = <<"N", "o", "n", "e">> -> 0
          [] t = <<"L", "o", "w">> -> 1
          [] t = <<"M", "e", "d", "i", "u", "m">> -> 2
          [] t = <<"H", "i", "g", "h">> -> 3]

C8_FamilyCodesInRange ==
    \A j \in 1..Len(individuals') :
        individuals'[j].family_influence \in {Num(0), Num(1), Num(2), Num(3)}

\* C8 as stated: the texts None, Low, Medium, High decode to 0, 1, 2, 3, a row
\* with any other family-influence text yields no record, and every record has a
\* family_influence in {0, 1, 2, 3}.
C8_OtherTextRejected ==
    [][ /\ ReadStep
            => /\ record'.c14 \notin DOMAIN C8_Codes => individuals' = individuals
               /\ individuals' # individuals
                    => Last(individuals').family_influence = Num(C8_Codes[record'.c14])
        /\ C8_FamilyCodesInRange ]_vars

\* C8 amended: the family-influence text is decoded after its surrounding
\* whitespace is trimmed: None, Low, Medium, High decode to 0, 1, 2, 3, a row whose
\* trimmed text is anything else yields no record, and every record has a
\* family_influence in {0, 1, 2, 3}.
C8_TrimmedTextDecoded ==
    [][ /\ ReadStep
            => /\ Trim(record'.c14) \notin DOMAIN C8_Codes => individuals' = individuals
               /\ individuals' # individuals
                    => Last(individuals').family_influence
                           = Num(C8_Codes[Trim(record'.c14)])
        /\ C8_FamilyCodesInRange ]_vars

C8_Witness ==
    /\ pc = "read_dataset"
    /\ record.c14 = <<" ", "M", "e", "d", "i", "u", "m", " ">>
    /\ individuals # <<>>
    /\ Last(individuals).id = i - 1
    /\ Last(individuals).family_influence = Num(2)

C9_Titles ==
    <<"Salary vs Age", "Salary vs Years of Experience", "Salary vs Job Satisfaction",
      "Salary vs Professional Network Size", "Salary vs Family Influence",
      "Salary vs Likelihood to Change Occupation">>

C9_Predictors ==
    <<"age", "years_of_experience", "job_satisfaction", "professional_network_size",
      "family_influence", "likelihood_to_change_occupation">>

\* C9: the six regressions run in the fixed order, each on the predictor column
\* and the salary column of the sample (both of length |sample|); the length
\* check never fails, and each analysis gives its result and label, whatever
\* the results of the others.
C9_SixAnalysesInOrder ==
    /\ pc # "panicked"
    /\ Len(results) <= Len(C9_Titles)
    /\ pc = "done" => Len(results) = Len(C9_Titles)
    /\ \A a \in 1..Len(results) :
          /\ results[a].title = C9_Titles[a]
          /\ results[a].x = Column(final_sample, C9_Predictors[a])
          /\ results[a].y = Column(final_sample, "salary")
          /\ Len(results[a].x) = Len(final_sample)
          /\ Len(results[a].y) = Len(final_sample)
          /\ results[a].label \in Labels

C9_Witness ==
    /\ pc = "done"
    /\ Len(results) = Len(C9_Titles)
    /\ Len(final_sample) = SampleK
    /\ IsFinite(results[1].correlation)
    /\ ~IsFinite(results[2].correlation)
    /\ IsFinite(results[5].correlation)

C10_Constant(v) == v # <<>> /\ \A j \in 1..Len(v) : v[j] = v[1] /\ v[1].k = "fin"

=============================================================================
